---- MODULE Spec2Model ----
(***************************************************************************)
(* Model of the WeatherNow backend: the expiring in-memory cache           *)
(* (SimpleCache), the weather retrieval rules (weatherGet,                 *)
(* fetchWeatherFromAPI) and the HTTP handler (getHandler).                 *)
(*                                                                         *)
(* Time is counted in units of 15 minutes (Date.now() / 900000), so the    *)
(* two age thresholds of weatherGet are 1 and 4 units.  Temperatures are   *)
(* integers in hundredths of a degree as delivered by the provider and in  *)
(* tenths of a degree after rounding.                                      *)
(*                                                                         *)
(* A request runs without interruption from the handler's entry to its     *)
(* first network await (fetch) and from the arrival of the upstream reply  *)
(* to the HTTP response; other requests, the clock and the sweep           *)
(* interleave between the two.  cacheTime (line 186) and the expiry base   *)
(* (line 250) read the clock in the same instant.                          *)
(***************************************************************************)
EXTENDS Integers, FiniteSets, Sequences, Bags, TLC

VARIABLES
  now,      \* Date.now()
  ttl,      \* SimpleCache.ttl
  apiKey,   \* whether config.weather.apiKey is set
  cache,    \* SimpleCache.cache
  started,  \* how many times getHandler has been invoked
  req,      \* the invocations awaiting their upstream call: a bag of the
            \* locals each keeps across the await
  responses,\* how many times a response was sent or next(error) was called
  last,     \* the invocation that answered last: the try block it ended in,
            \* its upstream calls, what weatherGet returned or threw, and
            \* what the handler sent
  ret,      \* what the last direct call of a SimpleCache method returned
  lastSet,  \* per key, the value and time of the last direct set still in force
  unswept   \* the Map as the same calls would have left it had the sweep
            \* never run

vars == <<now, ttl, apiKey, cache, started, req, responses, last, ret, lastSet, unswept>>

(***************************************************************************)
(* Bounds of the model.                                                    *)
(***************************************************************************)
MaxTime == 5
NumRequests == 3

(***************************************************************************)
(* Program constants, in model units.                                      *)
(***************************************************************************)
FifteenMinutes == 1
oneHour == 4
MinTemperature == -9000
MaxTemperature == 6000

\* config.cache.ttl values tried (in 15-minute units): below 15 minutes,
\* exactly one hour, above one hour.
TTLChoices == {0, 4, 5}

Undefined == [undefined |-> TRUE]

(***************************************************************************)
(* Query parameters as Express delivers them.                              *)
(***************************************************************************)
Omitted == "<omitted>"
ArrayParam == "<array>"
LocationInputs == {Omitted, "", ArrayParam, "London"}
UnitInputs == {Omitted, "celsius", "fahrenheit", "kelvin"}

(***************************************************************************)
(* Upstream replies.                                                       *)
(***************************************************************************)
Payloads ==
  { [temp_c |-> 2134, temp_f |-> 7041, name |-> "London", region |-> "",
     country |-> "UK", last_updated |-> "2024-05-01 10:00"],
    [temp_c |-> 1000, temp_f |-> 5000, name |-> "London", region |-> "England",
     country |-> "UK", last_updated |-> "2024-05-01 11:00"],
    [temp_c |-> 6500, temp_f |-> 14900, name |-> "Kuwait", region |-> "",
     country |-> "Kuwait", last_updated |-> "2024-05-01 10:00"],
    [temp_c |-> -9005, temp_f |-> -13009, name |-> "Vostok", region |-> "",
     country |-> "Antarctica", last_updated |-> "2024-05-01 10:00"],
    [temp_c |-> 1000, temp_f |-> 5000, name |-> "London", region |-> "England",
     country |-> "UK", last_updated |-> "not a date"] }

UpstreamReplies ==
  { [kind |-> "network"], [kind |-> "badjson"] }
    \cup { [kind |-> "status", status |-> s] : s \in {400, 500} }
    \cup { [kind |-> "ok", data |-> d] : d \in Payloads }

(***************************************************************************)
(* SimpleCache.  The Map is a function whose domain is the set of keys     *)
(* physically present.                                                     *)
(***************************************************************************)

\* Faulty variant of Expired: the entry already counts as expired at its expiry instant.
ExpiredAtExpiry(entry, t) == t >= entry.expiry

Expired(entry, t) == t > entry.expiry

\* Faulty variant of CacheSet: an existing entry is kept instead of overwritten.
CacheSetIfAbsent(c, key, value, t, ttlMs) ==
  IF key \in DOMAIN c THEN c
  ELSE [k \in DOMAIN c \cup {key} |->
          IF k = key THEN [value |-> value, expiry |-> t + ttlMs] ELSE c[k]]

\* Faulty variant of CacheSet: the entry lives one clock unit longer than the ttl.
CacheSetLonger(c, key, value, t, ttlMs) ==
  [k \in DOMAIN c \cup {key} |->
     IF k = key THEN [value |-> value, expiry |-> t + ttlMs + 1] ELSE c[k]]

CacheSet(c, key, value, t, ttlMs) ==
  [k \in DOMAIN c \cup {key} |->
     IF k = key THEN [value |-> value, expiry |-> t + ttlMs] ELSE c[k]]

CacheGet(c, key, t) ==
  IF key \notin DOMAIN c THEN Undefined
  ELSE IF Expired(c[key], t) THEN Undefined
  ELSE c[key].value

\* Faulty variant of CacheAfterGet: a lookup that finds an entry extends its expiry.
CacheAfterGetTouch(c, key, t) ==
  IF key \in DOMAIN c /\ t > c[key].expiry
  THEN [k \in DOMAIN c \ {key} |-> c[k]]
  ELSE IF key \in DOMAIN c
  THEN [k \in DOMAIN c |->
          IF k = key THEN [value |-> c[k].value, expiry |-> c[k].expiry + 1]
          ELSE c[k]]
  ELSE c

CacheAfterGet(c, key, t) ==
  IF key \in DOMAIN c /\ Expired(c[key], t)
  THEN [k \in DOMAIN c \ {key} |-> c[k]]
  ELSE c

CacheDelete(c, key) == [k \in DOMAIN c \ {key} |-> c[k]]

CacheClear(c) == [k \in {} |-> Undefined]

\* Faulty variant of Cleanup: the sweep also removes the entries that expire at this
\* very instant.
CleanupAtExpiry(c, t) == [k \in {x \in DOMAIN c : t < c[x].expiry} |-> c[k]]

Cleanup(c, t) == [k \in {x \in DOMAIN c : ~Expired(c[x], t)} |-> c[k]]

(***************************************************************************)
(* fetchWeatherFromAPI.                                                    *)
(***************************************************************************)

\* Faulty variant of CacheKey: the unit is left out of the key.
CacheKeyNoUnit(location, unit) == "weather_" \o location

\* `weather_${location}_${unit}`
CacheKey(location, unit) == "weather_" \o location \o "_" \o unit

Err(code, message) == [kind |-> "error", code |-> code, message |-> message]

Ok(response) == [kind |-> "ok", data |-> response]

ExtractTemperature(unit, data) ==
  IF unit = "fahrenheit" THEN data.temp_f ELSE data.temp_c

UnitSymbol(unit) == IF unit = "fahrenheit" THEN "F" ELSE "C"

FormatLocation(data) ==
  <<data.name, IF data.region # "" THEN data.region ELSE data.country>>

ValidDate(s) == s \in {"2024-05-01 10:00", "2024-05-01 11:00"}

ToISOString(s) ==
  CASE s = "2024-05-01 10:00" -> "2024-05-01T10:00:00.000Z"
    [] s = "2024-05-01 11:00" -> "2024-05-01T11:00:00.000Z"
    [] OTHER -> "Invalid Date"

\* Faulty variant of TemperatureOutOfRange: the upper limit is not checked.
TemperatureBelowRange(temperature) == temperature < MinTemperature

TemperatureOutOfRange(temperature) ==
  temperature < MinTemperature \/ temperature > MaxTemperature

\* Math.round(temperature * 10) / 10, from hundredths to tenths.
RoundTemperature(temperature) == (temperature + 5) \div 10

\* Faulty variant of NormalizeError: runtime errors are rethrown as they are.
RethrowError(error) == error

NormalizeError(error) ==
  IF error.code # "" THEN error
  ELSE Err("WEATHER_API_ERROR", "weatherApiRequestFailed")

\* The try block of fetchWeatherFromAPI: what it returns or throws before
\* the catch clause normalizes it.  An error thrown by the runtime carries
\* no code.
FetchTry(unit, upstream) ==
  IF upstream.kind = "network" THEN Err("", "fetch failed")
  ELSE IF upstream.kind = "status"
    THEN IF upstream.status = 400
         THEN Err("LOCATION_NOT_FOUND", "locationNotFound")
         ELSE Err("WEATHER_API_ERROR", "weatherApiRequestFailed")
  ELSE IF upstream.kind = "badjson" THEN Err("", "Unexpected token")
  ELSE IF ~ValidDate(upstream.data.last_updated)
    THEN Err("", "Invalid time value")
  ELSE IF TemperatureOutOfRange(ExtractTemperature(unit, upstream.data))
    THEN Err("VALIDATION_ERROR", "temperatureOutOfRange")
  ELSE Ok([temperature |-> RoundTemperature(ExtractTemperature(unit, upstream.data)),
           unit |-> UnitSymbol(unit),
           location |-> FormatLocation(upstream.data),
           timestamp |-> ToISOString(upstream.data.last_updated),
           status |-> "online"])

FetchResult(unit, upstream) ==
  LET out == FetchTry(unit, upstream)
  IN IF out.kind = "ok" THEN out ELSE NormalizeError(out)

ApiKeyError == Err("WEATHER_API_ERROR", "weatherApiKeyNotConfigured")

\* Faulty variant of CacheData: cacheTime is taken from the provider's timestamp
\* instead of the clock.
CacheDataProviderTime(response, t) ==
  [temperature |-> response.temperature, unit |-> response.unit,
   location |-> response.location, timestamp |-> response.timestamp,
   cacheTime |-> IF response.timestamp = "2024-05-01T11:00:00.000Z" THEN 1 ELSE 0]

CacheData(response, t) ==
  [temperature |-> response.temperature, unit |-> response.unit,
   location |-> response.location, timestamp |-> response.timestamp,
   cacheTime |-> t]

(***************************************************************************)
(* weatherGet.                                                             *)
(***************************************************************************)

\* Faulty variant of IsFresh: the age in milliseconds is compared with seconds, so
\* that only an age of zero or less passes.
IsFreshSeconds(cacheAge) == cacheAge < 0

IsFresh(cacheAge) == cacheAge < FifteenMinutes

\* Faulty variant of IsOutdated: an age of exactly one hour counts as outdated.
IsOutdatedAtOneHour(cacheAge) == cacheAge >= oneHour

IsOutdated(cacheAge) == cacheAge > oneHour

CachedResponse(cachedData, status) ==
  [temperature |-> cachedData.temperature, unit |-> cachedData.unit,
   location |-> cachedData.location, timestamp |-> cachedData.timestamp,
   status |-> status]

\* Which try block of weatherGet the fetch is awaited in: the one of the
\* "outdated" rule or the one of the "offline" fallback.
FetchBranch(cachedData, t) ==
  IF cachedData # Undefined /\ IsOutdated(t - cachedData.cacheTime)
  THEN "outdated" ELSE "offline"

\* Faulty variant of OnFetchError: the catch clause of the "outdated" rule is missing.
OnFetchErrorOfflineOnly(branch, cachedData, error) ==
  IF cachedData # Undefined
  THEN [kind |-> "ok",
        data |-> [temperature |-> cachedData.temperature, unit |-> cachedData.unit,
                  location |-> cachedData.location,
                  timestamp |-> cachedData.timestamp, status |-> "offline"]]
  ELSE error

\* The catch clause of the try block the fetch was awaited in.
OnFetchError(branch, cachedData, error) ==
  IF branch = "outdated" THEN Ok(CachedResponse(cachedData, "outdated"))
  ELSE IF cachedData # Undefined THEN Ok(CachedResponse(cachedData, "offline"))
  ELSE error

Settle(branch, cachedData, fetched) ==
  IF fetched.kind = "ok" THEN fetched
  ELSE OnFetchError(branch, cachedData, fetched)

(***************************************************************************)
(* getHandler.                                                             *)
(***************************************************************************)
InvalidLocation(location) ==
  location \in {Omitted, ""} \/ location = ArrayParam

DefaultUnit(unit) == IF unit = Omitted THEN "celsius" ELSE unit

\* Faulty variant of InvalidUnit: kelvin is let through.
InvalidUnitButKelvin(unit) ==
  unit # "celsius" /\ unit # "fahrenheit" /\ unit # "kelvin"

InvalidUnit(unit) == unit # "celsius" /\ unit # "fahrenheit"

ValidationResponse(message) ==
  [sent |-> "json", status |-> 400, code |-> "VALIDATION_ERROR",
   message |-> message]

\* Faulty variant of HandlerResponse: LOCATION_NOT_FOUND is not told apart from
\* the other failures of the provider.
HandlerResponseNoNotFound(result) ==
  IF result.kind = "ok"
  THEN [sent |-> "json", status |-> 200, code |-> "success",
        data |-> result.data]
  ELSE IF result.code \in {"WEATHER_API_ERROR", "LOCATION_NOT_FOUND"}
  THEN [sent |-> "json", status |-> 503, code |-> "EXTERNAL_API_ERROR",
        message |-> result.message]
  ELSE [sent |-> "next", error |-> result]

HandlerResponse(result) ==
  IF result.kind = "ok"
  THEN [sent |-> "json", status |-> 200, code |-> "success",
        data |-> result.data]
  ELSE IF result.code = "WEATHER_API_ERROR"
  THEN [sent |-> "json", status |-> 503, code |-> "EXTERNAL_API_ERROR",
        message |-> result.message]
  ELSE IF result.code = "LOCATION_NOT_FOUND"
  THEN [sent |-> "json", status |-> 404, code |-> "LOCATION_NOT_FOUND",
        message |-> result.message]
  ELSE [sent |-> "next", error |-> result]

(***************************************************************************)
(* State.                                                                  *)
(***************************************************************************)
NoResult == [kind |-> "none"]
NoResponse == [sent |-> "none"]

NoLast ==
  [branch |-> "", calls |-> 0, result |-> NoResult, response |-> NoResponse]

EmptyMap == [k \in {} |-> Undefined]

Init ==
  /\ now = 0
  /\ ttl \in TTLChoices
  /\ apiKey \in BOOLEAN
  /\ cache = EmptyMap
  /\ started = 0
  /\ req = EmptyBag
  /\ responses = 0
  /\ last = NoLast
  /\ ret = Undefined
  /\ lastSet = EmptyMap
  /\ unswept = EmptyMap

Answered(branch, calls, result, response) ==
  [branch |-> branch, calls |-> calls, result |-> result, response |-> response]

\* Faulty variant of Awaiting: the reading found at lookup is not kept across the
\* await.
AwaitingWithoutSnapshot(location, unit, cachedData, branch) ==
  [location |-> location, unit |-> unit, cachedData |-> Undefined,
   branch |-> IF cachedData = Undefined THEN branch ELSE "offline"]

\* The locals of weatherGet that are live across the await of the fetch.
Awaiting(location, unit, cachedData, branch) ==
  [location |-> location, unit |-> unit, cachedData |-> cachedData,
   branch |-> branch]

\* A request arrives: getHandler runs up to its response or up to the
\* await of the upstream call.
getHandler(location, rawUnit) ==
  /\ started < NumRequests
  /\ started' = started + 1
  /\ LET unit == DefaultUnit(rawUnit)
         key == CacheKey(location, unit)
         cachedData == CacheGet(cache, key, now)
         branch == FetchBranch(cachedData, now)
     IN IF InvalidLocation(location)
        THEN /\ req' = req
             /\ responses' = responses + 1
             /\ last' = Answered("rejected", 0, NoResult,
                                 ValidationResponse("locationRequired"))
             /\ cache' = cache
             /\ unswept' = unswept
        ELSE IF InvalidUnit(unit)
        THEN /\ req' = req
             /\ responses' = responses + 1
             /\ last' = Answered("rejected", 0, NoResult,
                                 ValidationResponse("invalidUnit"))
             /\ cache' = cache
             /\ unswept' = unswept
        ELSE IF cachedData # Undefined /\ IsFresh(now - cachedData.cacheTime)
        THEN /\ req' = req
             /\ responses' = responses + 1
             /\ last' = Answered("fresh", 0,
                           Ok(CachedResponse(cachedData, "online")),
                           HandlerResponse(Ok(CachedResponse(cachedData, "online"))))
             /\ cache' = CacheAfterGet(cache, key, now)
             /\ unswept' = CacheAfterGet(unswept, key, now)
        ELSE IF ~apiKey
        THEN /\ req' = req
             /\ responses' = responses + 1
             /\ last' = Answered(branch, 0,
                           Settle(branch, cachedData, ApiKeyError),
                           HandlerResponse(Settle(branch, cachedData, ApiKeyError)))
             /\ cache' = CacheAfterGet(cache, key, now)
             /\ unswept' = CacheAfterGet(unswept, key, now)
        ELSE /\ req' = req (+) SetToBag({Awaiting(location, unit, cachedData, branch)})
             /\ responses' = responses
             /\ last' = last
             /\ cache' = CacheAfterGet(cache, key, now)
             /\ unswept' = CacheAfterGet(unswept, key, now)
  /\ UNCHANGED <<now, ttl, apiKey, ret, lastSet>>

\* Faulty variant of fetchSettled: the continuation of the await is lost, the
\* invocation ends without a response.
fetchSettledUnanswered(q, upstream) ==
  /\ BagIn(q, req)
  /\ req' = req (-) SetToBag({q})
  /\ UNCHANGED <<now, ttl, apiKey, cache, started, responses, last, ret, lastSet,
                 unswept>>

\* The upstream call of the awaiting invocation q settles:
\* fetchWeatherFromAPI resumes, then weatherGet, then getHandler.
fetchSettled(q, upstream) ==
  /\ BagIn(q, req)
  /\ LET fetched == FetchResult(q.unit, upstream)
         result == Settle(q.branch, q.cachedData, fetched)
     IN /\ req' = req (-) SetToBag({q})
        /\ responses' = responses + 1
        /\ last' = Answered(q.branch, 1, result, HandlerResponse(result))
        /\ cache' = IF fetched.kind = "ok"
                    THEN CacheSet(cache, CacheKey(q.location, q.unit),
                                  CacheData(fetched.data, now), now, ttl)
                    ELSE cache
        /\ unswept' = IF fetched.kind = "ok"
                      THEN CacheSet(unswept, CacheKey(q.location, q.unit),
                                    CacheData(fetched.data, now), now, ttl)
                      ELSE unswept
  /\ UNCHANGED <<now, ttl, apiKey, started, ret, lastSet>>

\* The setInterval callback of startCleanup.
Sweep ==
  /\ cache' = Cleanup(cache, now)
  /\ UNCHANGED <<now, ttl, apiKey, started, req, responses, last, ret, lastSet, unswept>>

Tick ==
  /\ now < MaxTime
  /\ now' = now + 1
  /\ UNCHANGED <<ttl, apiKey, cache, started, req, responses, last, ret, lastSet, unswept>>

Next ==
  \/ \E location \in LocationInputs, rawUnit \in UnitInputs :
       getHandler(location, rawUnit)
  \/ \E q \in BagToSet(req), upstream \in UpstreamReplies : fetchSettled(q, upstream)
  \/ Sweep
  \/ Tick

Spec == Init /\ [][Next]_vars

(***************************************************************************)
(* The service with an upstream that answers: an upstream call that is     *)
(* pending does not stay pending forever.  Nothing is assumed of the       *)
(* arrival of requests, the sweep or the clock.                            *)
(***************************************************************************)
UpstreamCompletes ==
  \E q \in BagToSet(req), upstream \in UpstreamReplies : fetchSettled(q, upstream)

LiveSpec == Spec /\ WF_vars(UpstreamCompletes)

(***************************************************************************)
(* SimpleCache on its own: its methods called directly, with any key and   *)
(* value, between ticks of the clock and runs of the sweep.                *)
(***************************************************************************)
CacheKeys == {"a", "b"}
CacheValues == {[v |-> "x"], [v |-> "y"]}

set(key, value) ==
  /\ cache' = CacheSet(cache, key, value, now, ttl)
  /\ unswept' = CacheSet(unswept, key, value, now, ttl)
  /\ lastSet' = [k \in DOMAIN lastSet \cup {key} |->
                   IF k = key THEN [value |-> value, time |-> now] ELSE lastSet[k]]
  /\ ret' = Undefined
  /\ UNCHANGED <<now, ttl, apiKey, started, req, responses, last>>

get(key) ==
  /\ ret' = CacheGet(cache, key, now)
  /\ cache' = CacheAfterGet(cache, key, now)
  /\ unswept' = CacheAfterGet(unswept, key, now)
  /\ UNCHANGED <<now, ttl, apiKey, started, req, responses, last, lastSet>>

delete(key) ==
  /\ cache' = CacheDelete(cache, key)
  /\ unswept' = CacheDelete(unswept, key)
  /\ lastSet' = [k \in DOMAIN lastSet \ {key} |-> lastSet[k]]
  /\ ret' = Undefined
  /\ UNCHANGED <<now, ttl, apiKey, started, req, responses, last>>

clear ==
  /\ cache' = CacheClear(cache)
  /\ unswept' = CacheClear(unswept)
  /\ lastSet' = EmptyMap
  /\ ret' = Undefined
  /\ UNCHANGED <<now, ttl, apiKey, started, req, responses, last>>

CacheNext ==
  \/ \E key \in CacheKeys, value \in CacheValues : set(key, value)
  \/ \E key \in CacheKeys : get(key)
  \/ \E key \in CacheKeys : delete(key)
  \/ clear
  \/ Sweep
  \/ Tick

CacheSpec == Init /\ [][CacheNext]_vars

(***************************************************************************)
(* The service asked about several places: requests with acceptable        *)
(* parameters for two location strings, one of which ends like a key of    *)
(* the other, and an upstream that either fails or delivers one payload.   *)
(***************************************************************************)
KeyLocations == {"London", "London_celsius"}
KeyUnits == {"celsius", "fahrenheit"}
KeyReplies ==
  { [kind |-> "network"],
    [kind |-> "ok",
     data |-> [temp_c |-> 1000, temp_f |-> 5000, name |-> "London",
               region |-> "England", country |-> "UK",
               last_updated |-> "2024-05-01 11:00"]] }

KeyNext ==
  \/ \E location \in KeyLocations, unit \in KeyUnits : getHandler(location, unit)
  \/ \E q \in BagToSet(req), upstream \in KeyReplies : fetchSettled(q, upstream)
  \/ Sweep
  \/ Tick

KeySpec == Init /\ [][KeyNext]_vars

(***************************************************************************)
(* Properties.  Each is stated on the inputs of a step and on the state    *)
(* before and after it, in terms of the entries physically in the cache.   *)
(***************************************************************************)
ValidLocations == {"London"}
ValidUnits == {"celsius", "fahrenheit"}

\* The entry under key is one a lookup finds: present and not past expiry.
Held(key) == key \in DOMAIN cache /\ now <= cache[key].expiry

AgeOf(key) == now - cache[key].value.cacheTime

\* The reading a cached record is served as.
Served(cachedData, status) ==
  [kind |-> "ok",
   data |-> [temperature |-> cachedData.temperature, unit |-> cachedData.unit,
             location |-> cachedData.location, timestamp |-> cachedData.timestamp,
             status |-> status]]

\* The step is the arrival of a request / the settling of an upstream call.
Arrives == started' = started + 1

Settles == started' = started /\ req' # req

\* The step takes q out of the invocations awaiting upstream.
Completes(q) == req' = req (-) SetToBag({q})

\* The arriving invocation is left awaiting upstream with these locals.
LeftAwaiting(location, unit, cachedData, branch) ==
  req' = req (+) SetToBag({[location |-> location, unit |-> unit,
                            cachedData |-> cachedData, branch |-> branch]})

FetchFails(q, upstream) == FetchResult(q.unit, upstream).kind = "error"

\* A reply whose payload parses and carries a timestamp Date can read.
Readable(upstream) ==
  upstream.kind = "ok" /\ upstream.data.last_updated \in
                            {"2024-05-01 10:00", "2024-05-01 11:00"}

\* C1: a lookup that finds a reading younger than 15 minutes answers with
\* that reading's fields and status "online", issues no upstream call and
\* leaves the cache as it was.
C1_FreshServed ==
  [][Arrives =>
     \A location \in ValidLocations, unit \in ValidUnits :
       LET key == CacheKey(location, unit)
       IN (Held(key) /\ AgeOf(key) < FifteenMinutes
             /\ getHandler(location, unit))
          => /\ last'.result = Served(cache[key].value, "online")
             /\ last'.calls = 0
             /\ req' = req
             /\ cache' = cache]_vars

C1_Witness ==
  /\ last.branch = "fresh"
  /\ last.calls = 0
  /\ last.result.kind = "ok"
  /\ last.response.sent = "json" /\ last.response.status = 200
  /\ \E key \in DOMAIN cache :
       /\ Held(key) /\ AgeOf(key) < FifteenMinutes
       /\ last.result = Served(cache[key].value, "online")

\* C2: a lookup that finds a reading older than 60 minutes awaits the fetch
\* in the "outdated" rule, and when that fetch fails weatherGet does not
\* fail: it returns the reading found, with status "outdated".
C2_OutdatedFallback ==
  [][/\ Arrives =>
        \A location \in ValidLocations, unit \in ValidUnits :
          LET key == CacheKey(location, unit)
          IN (Held(key) /\ AgeOf(key) > oneHour /\ getHandler(location, unit))
             => IF apiKey
                THEN LeftAwaiting(location, unit, cache[key].value, "outdated")
                ELSE /\ last'.result = Served(cache[key].value, "outdated")
                     /\ req' = req
     /\ Settles =>
        \A q \in BagToSet(req) :
        Completes(q) =>
        \A upstream \in UpstreamReplies :
          (q.branch = "outdated" /\ FetchFails(q, upstream)
             /\ fetchSettled(q, upstream))
          => /\ last'.result = Served(q.cachedData, "outdated")
             /\ last'.response.sent = "json" /\ last'.response.status = 200]_vars

C2_Witness ==
  /\ last.branch = "outdated"
  /\ last.calls = 1
  /\ last.result.kind = "ok"
  /\ last.result.data.status = "outdated"
  /\ last.response.sent = "json" /\ last.response.status = 200

\* C3 (as amended): a temperature of 65 Celsius from upstream makes
\* weatherGet fail with the validation error only when the lookup found no
\* cached reading; when it found one (aged 15 minutes or more, or no fetch
\* would have been made) the error is suppressed and that reading is
\* returned as "offline" or, from the "outdated" rule, as "outdated".  The
\* cache is not written either way.
C3_ValidationErrorUnlessCached ==
  [][Settles =>
     \A q \in BagToSet(req) :
     Completes(q) =>
     \A upstream \in UpstreamReplies :
       (Readable(upstream) /\ q.unit = "celsius" /\ upstream.data.temp_c = 6500
          /\ fetchSettled(q, upstream))
       => /\ cache' = cache
          /\ IF q.cachedData = Undefined
             THEN /\ last'.result = [kind |-> "error", code |-> "VALIDATION_ERROR",
                                     message |-> "temperatureOutOfRange"]
             ELSE /\ last'.result =
                       Served(q.cachedData,
                              IF q.branch = "outdated" THEN "outdated"
                              ELSE "offline")]_vars

C3_Witness ==
  /\ last.calls = 1
  /\ last.result.kind = "error"
  /\ last.result.code = "VALIDATION_ERROR"

\* C3 (as claimed): a temperature of 65 Celsius from upstream makes
\* weatherGet fail with a validation error whatever the cache held.
C3_ValidationErrorAlways ==
  [][Settles =>
     \A q \in BagToSet(req) :
     Completes(q) =>
     \A upstream \in UpstreamReplies :
       (Readable(upstream) /\ q.unit = "celsius" /\ upstream.data.temp_c = 6500
          /\ fetchSettled(q, upstream))
       => /\ last'.result.kind = "error"
          /\ last'.result.code = "VALIDATION_ERROR"]_vars

\* C4: a lookup that finds nothing, or a reading aged from 15 to 60 minutes
\* (both inclusive), awaits the fetch in the "offline" fallback; when that
\* fetch fails the reading found is returned with status "offline", and
\* with no reading found the failure is the outcome.
C4_OfflineFallback ==
  [][/\ Arrives =>
        \A location \in ValidLocations, unit \in ValidUnits :
          LET key == CacheKey(location, unit)
              found == IF Held(key) THEN cache[key].value ELSE Undefined
          IN ((Held(key) => /\ AgeOf(key) >= FifteenMinutes
                             /\ AgeOf(key) <= oneHour)
                /\ getHandler(location, unit))
             => IF apiKey
                THEN LeftAwaiting(location, unit, found, "offline")
                ELSE /\ req' = req
                     /\ last'.result =
                          IF Held(key) THEN Served(found, "offline")
                          ELSE [kind |-> "error", code |-> "WEATHER_API_ERROR",
                                message |-> "weatherApiKeyNotConfigured"]
     /\ Settles =>
        \A q \in BagToSet(req) :
        Completes(q) =>
        \A upstream \in UpstreamReplies :
          (q.branch = "offline" /\ FetchFails(q, upstream)
             /\ fetchSettled(q, upstream))
          => IF q.cachedData # Undefined
             THEN /\ last'.result = Served(q.cachedData, "offline")
                  /\ last'.response.sent = "json" /\ last'.response.status = 200
             ELSE /\ last'.result = FetchResult(q.unit, upstream)
                  /\ last'.result.kind = "error"]_vars

C4_Witness ==
  /\ last.branch = "offline"
  /\ last.calls = 1
  /\ last.result.kind = "ok"
  /\ last.result.data.status = "offline"
  /\ \E key \in DOMAIN cache :
       /\ AgeOf(key) = oneHour
       /\ last.result = Served(cache[key].value, "offline")

\* C5: when the fetch of a request succeeds, weatherGet returns the new
\* reading with status "online", and the entry of the request's key then
\* holds that reading with cacheTime equal to the time of the write and
\* expiry one ttl later, in place of whatever was there; no other entry
\* changes.
C5_FetchSuccessCached ==
  [][Settles =>
     \A q \in BagToSet(req) :
     Completes(q) =>
     \A upstream \in UpstreamReplies :
       LET key == CacheKey(q.location, q.unit)
           new == FetchResult(q.unit, upstream)
       IN (new.kind = "ok" /\ fetchSettled(q, upstream))
          => /\ last'.result = new
             /\ new.data.status = "online"
             /\ last'.response.sent = "json" /\ last'.response.status = 200
             /\ DOMAIN cache' = DOMAIN cache \cup {key}
             /\ cache'[key] =
                  [value |-> [temperature |-> new.data.temperature,
                              unit |-> new.data.unit,
                              location |-> new.data.location,
                              timestamp |-> new.data.timestamp,
                              cacheTime |-> now],
                   expiry |-> now + ttl]
             /\ \A k \in DOMAIN cache \ {key} : cache'[k] = cache[k]]_vars

C5_Witness ==
  /\ last.branch = "outdated"
  /\ last.calls = 1
  /\ last.result.kind = "ok"
  /\ last.result.data.status = "online"
  /\ \E key \in DOMAIN cache :
       /\ cache[key].value.cacheTime = now
       /\ now > oneHour
       /\ last.result = Served(cache[key].value, "online")

\* C6 (as claimed): every failure of weatherGet carries the code
\* WEATHER_API_ERROR or LOCATION_NOT_FOUND, so the handler answers it
\* itself (503 for WEATHER_API_ERROR) and never passes it to next.
C6_OnlyUpstreamOrNotFound ==
  last.result.kind = "error"
  => /\ last.result.code \in {"WEATHER_API_ERROR", "LOCATION_NOT_FOUND"}
     /\ last.response.sent = "json"
     /\ last.result.code = "WEATHER_API_ERROR" => last.response.status = 503

\* C7: with no cached reading found and a fetch that fails, weatherGet
\* fails with the error of the fetch: WEATHER_API_ERROR for a network
\* failure, a payload that cannot be read, a missing API key or a
\* non-success status other than 400, and LOCATION_NOT_FOUND for status
\* 400.  The failing invocation stores nothing: the cache is as it was, so
\* a key without an entry is still without one.
C7_NoCacheFailurePropagates ==
  [][/\ Arrives =>
        \A location \in ValidLocations, unit \in ValidUnits :
          LET key == CacheKey(location, unit)
          IN (~Held(key) /\ ~apiKey /\ getHandler(location, unit))
             => /\ req' = req
                /\ last'.calls = 0
                /\ last'.result = [kind |-> "error", code |-> "WEATHER_API_ERROR",
                                   message |-> "weatherApiKeyNotConfigured"]
                /\ key \notin DOMAIN cache'
     /\ Settles =>
        \A q \in BagToSet(req) :
        Completes(q) =>
        \A upstream \in UpstreamReplies :
          (q.cachedData = Undefined /\ fetchSettled(q, upstream))
          => /\ (upstream.kind \in {"network", "badjson"}
                   \/ (upstream.kind = "status" /\ upstream.status # 400)
                   \/ (upstream.kind = "ok" /\ ~Readable(upstream)))
                => /\ last'.result = [kind |-> "error", code |-> "WEATHER_API_ERROR",
                                      message |-> "weatherApiRequestFailed"]
                   /\ cache' = cache
             /\ (upstream.kind = "status" /\ upstream.status = 400)
                => /\ last'.result = [kind |-> "error", code |-> "LOCATION_NOT_FOUND",
                                      message |-> "locationNotFound"]
                   /\ cache' = cache
             /\ FetchFails(q, upstream)
                => /\ last'.result.kind = "error"
                   /\ cache' = cache]_vars

C7_Witness ==
  /\ last.calls = 1
  /\ last.branch = "offline"
  /\ last.result.kind = "error"
  /\ last.result.code = "LOCATION_NOT_FOUND"
  /\ last.response.sent = "json" /\ last.response.status = 404
  /\ cache = EmptyMap

\* C8: a get at a time not after setTime + ttl of the latest set of its
\* key (with no delete or clear since) returns exactly the value set and
\* keeps the entry; a get after that time returns undefined and leaves the
\* key out of the map; a get of a key not set returns undefined.
C8_GetAfterSet ==
  [][\A key \in CacheKeys :
       get(key)
       => IF key \in DOMAIN lastSet /\ now <= lastSet[key].time + ttl
          THEN /\ ret' = lastSet[key].value
               /\ cache' = cache
               /\ key \in DOMAIN cache'
          ELSE /\ ret' = Undefined
               /\ key \notin DOMAIN cache'
               /\ \A k \in DOMAIN cache \ {key} :
                    k \in DOMAIN cache' /\ cache'[k] = cache[k]]_vars

C8_Witness ==
  /\ ttl > 0
  /\ \E key \in DOMAIN lastSet :
       /\ now = lastSet[key].time + ttl
       /\ ret = lastSet[key].value
       /\ key \in DOMAIN cache

\* C9 (as claimed): the range is applied to the Celsius equivalent, so a
\* fahrenheit request whose upstream reading is within [-90, 60] in Celsius
\* is accepted and returned as the new reading.
C9_RangeInCelsiusTerms ==
  [][Settles =>
     \A q \in BagToSet(req) :
     Completes(q) =>
     \A upstream \in UpstreamReplies :
       (Readable(upstream) /\ q.unit = "fahrenheit"
          /\ upstream.data.temp_c >= MinTemperature
          /\ upstream.data.temp_c <= MaxTemperature
          /\ fetchSettled(q, upstream))
       => /\ last'.result.kind = "ok"
          /\ last'.result.data.status = "online"
          /\ last'.result.data.unit = "F"]_vars

\* C10: the handler answers 400 VALIDATION_ERROR "locationRequired" when
\* location is omitted, empty or not a string and, location being
\* acceptable, 400 VALIDATION_ERROR "invalidUnit" when unit is supplied and
\* is neither "celsius" nor "fahrenheit"; in both cases it is done without
\* touching the cache or calling upstream.  An omitted unit is handled
\* exactly as "celsius".
C10_ValidationAtBoundary ==
  [][Arrives =>
     \A location \in LocationInputs, rawUnit \in UnitInputs :
       getHandler(location, rawUnit)
       => IF location \in {Omitted, "", ArrayParam}
          THEN /\ last'.response = [sent |-> "json", status |-> 400,
                                    code |-> "VALIDATION_ERROR",
                                    message |-> "locationRequired"]
               /\ last'.calls = 0
               /\ req' = req
               /\ cache' = cache
          ELSE IF rawUnit \notin {Omitted, "celsius", "fahrenheit"}
          THEN /\ last'.response = [sent |-> "json", status |-> 400,
                                    code |-> "VALIDATION_ERROR",
                                    message |-> "invalidUnit"]
               /\ last'.calls = 0
               /\ req' = req
               /\ cache' = cache
          ELSE /\ req' = req
                  => ~(last'.response.sent = "json" /\ last'.response.status = 400)
               /\ req' # req
                  => \E q \in BagToSet(req') :
                       /\ q.unit = IF rawUnit = Omitted THEN "celsius" ELSE rawUnit
                       /\ req' = req (+) SetToBag({q})
               /\ rawUnit = Omitted => getHandler(location, "celsius")]_vars

C10_Witness ==
  /\ last.branch = "rejected"
  /\ last.calls = 0
  /\ last.response.sent = "json"
  /\ last.response.status = 400
  /\ last.response.message = "invalidUnit"
  /\ req = EmptyBag
  /\ cache = EmptyMap

\* What the handler does with an outcome of weatherGet.
OutcomeOf(result) ==
  CASE result.kind = "ok" ->
         [sent |-> "json", status |-> 200, code |-> "success", data |-> result.data]
    [] result.kind = "error" /\ result.code = "WEATHER_API_ERROR" ->
         [sent |-> "json", status |-> 503, code |-> "EXTERNAL_API_ERROR",
          message |-> result.message]
    [] result.kind = "error" /\ result.code = "LOCATION_NOT_FOUND" ->
         [sent |-> "json", status |-> 404, code |-> "LOCATION_NOT_FOUND",
          message |-> result.message]
    [] OTHER -> [sent |-> "next", error |-> result]

\* C11: a request that passes validation gets exactly one outcome, fixed by
\* what weatherGet returned or threw: 200 with the reading, 503
\* EXTERNAL_API_ERROR for WEATHER_API_ERROR, 404 for LOCATION_NOT_FOUND,
\* next(error) for any other error.  While its fetch is pending nothing is
\* sent, and over all requests the responses sent plus the requests still
\* pending equal the requests received.
C11_OneOutcomePerRequest ==
  [][/\ responses' + BagCardinality(req') = started'
     /\ Arrives =>
        \A location \in ValidLocations, unit \in ValidUnits :
          getHandler(location, unit)
          => IF req' = req
             THEN /\ responses' = responses + 1
                  /\ last'.result.kind \in {"ok", "error"}
                  /\ last'.response = OutcomeOf(last'.result)
             ELSE /\ responses' = responses
                  /\ last' = last
     /\ Settles =>
        /\ responses' = responses + 1
        /\ BagCardinality(req') = BagCardinality(req) - 1
        /\ last'.result.kind \in {"ok", "error"}
        /\ last'.response = OutcomeOf(last'.result)]_vars

C11_Witness ==
  /\ started = NumRequests
  /\ responses = NumRequests
  /\ req = EmptyBag
  /\ last.calls = 1
  /\ last.result.kind = "error"
  /\ last.result.code = "VALIDATION_ERROR"
  /\ last.response = [sent |-> "next", error |-> last.result]

\* The key an awaiting invocation looked up and will write.
KeyOf(q) == CacheKey(q.location, q.unit)

\* C12: requests for one key whose lookups all precede the completion of
\* any of their fetches do not coordinate.  A request that arrives while
\* another is awaiting upstream for the same key, and finds no reading
\* younger than 15 minutes, issues its own call; any awaiting request can
\* complete next, whatever the others are doing; each one that succeeds
\* writes the entry and returns its own reading, and the others stay
\* pending as they were.
C12_ConcurrentRequestsIndependent ==
  /\ [](\A q \in BagToSet(req) :
          ENABLED (\E upstream \in UpstreamReplies : fetchSettled(q, upstream)))
  /\ [][
     /\ Arrives =>
        \A location \in ValidLocations, unit \in ValidUnits :
          LET key == CacheKey(location, unit)
          IN (/\ \E q \in BagToSet(req) : KeyOf(q) = key
              /\ apiKey
              /\ ~(Held(key) /\ AgeOf(key) < FifteenMinutes)
              /\ getHandler(location, unit))
             => /\ BagCardinality(req') = BagCardinality(req) + 1
                /\ \E p \in BagToSet(req') :
                     /\ KeyOf(p) = key
                     /\ req' = req (+) SetToBag({p})
                /\ responses' = responses
     /\ Settles =>
        \A q \in BagToSet(req) :
        Completes(q) =>
        \A upstream \in UpstreamReplies :
          (/\ FetchResult(q.unit, upstream).kind = "ok"
           /\ BagCardinality(req) > 1
           /\ fetchSettled(q, upstream))
          => /\ last'.result = FetchResult(q.unit, upstream)
             /\ KeyOf(q) \in DOMAIN cache'
             /\ cache'[KeyOf(q)].value =
                  CacheData(FetchResult(q.unit, upstream).data, now)
             /\ req' = req (-) SetToBag({q})]_vars

\* A request that found nothing is still pending although the entry of its
\* key has just been written: the writer's fetch overlapped its own.
C12_Witness ==
  /\ last.calls = 1
  /\ last.result.kind = "ok"
  /\ \E q \in BagToSet(req) :
       /\ q.cachedData = Undefined
       /\ KeyOf(q) \in DOMAIN cache
       /\ cache[KeyOf(q)].value.cacheTime = now
       /\ last.result = Served(cache[KeyOf(q)].value, "online")

\* Every entry of the cache after the step was there before it, with the
\* same value (cacheTime included) and expiry.
NothingWritten == \A k \in DOMAIN cache' : k \in DOMAIN cache /\ cache'[k] = cache[k]

\* C13: only a successful fetch creates or overwrites an entry.  A request
\* answered on arrival (from the fresh fast path, degraded or failed for
\* want of an API key, or rejected), a request left awaiting, and a fetch
\* that fails (whether the request then answers "outdated", "offline" or
\* with the error) add no entry and change no value, cacheTime or expiry;
\* the only entry a lookup can remove is the expired entry of its own key,
\* and a failed fetch removes none.  A successful fetch changes the entry
\* of its own key only.
C13_WrittenOnlyByFetchSuccess ==
  [][/\ Arrives =>
        /\ NothingWritten
        /\ \A k \in DOMAIN cache \ DOMAIN cache' :
             /\ now > cache[k].expiry
             /\ \A location \in LocationInputs, rawUnit \in UnitInputs :
                  getHandler(location, rawUnit)
                  => k = CacheKey(location, DefaultUnit(rawUnit))
     /\ Settles =>
        \A q \in BagToSet(req) :
        Completes(q) =>
        \A upstream \in UpstreamReplies :
          fetchSettled(q, upstream)
          => IF FetchResult(q.unit, upstream).kind = "ok"
             THEN /\ DOMAIN cache' = DOMAIN cache \cup {KeyOf(q)}
                  /\ \A k \in DOMAIN cache \ {KeyOf(q)} : cache'[k] = cache[k]
             ELSE /\ cache' = cache
                  /\ last'.result.kind = "ok"
                     => last'.result.data.status \in {"outdated", "offline"}]_vars

\* A degraded answer has just been given while the entry it came from is
\* still in the cache as it was written.
C13_Witness ==
  /\ last.calls = 1
  /\ last.result.kind = "ok"
  /\ last.result.data.status = "offline"
  /\ \E k \in DOMAIN cache :
       /\ last.result = Served(cache[k].value, "offline")
       /\ cache[k].expiry = cache[k].value.cacheTime + ttl
       /\ cache[k].value.cacheTime < now

\* The upstream calls outstanding: one for each invocation awaiting its
\* fetch (line 132).
Outstanding(bag) == BagCardinality(bag)

\* C14: an invocation issues at most one upstream call.  On arrival at most
\* one call is issued, and none when the request is rejected, when the
\* lookup finds a reading younger than 15 minutes or when no API key is
\* configured; when the call completes, in the "outdated" rule or in the
\* "offline" fallback, with success or with failure, the invocation answers
\* without issuing another: the calls outstanding drop by one and the
\* invocation has made exactly one.
C14_AtMostOneUpstreamCall ==
  [][/\ Arrives =>
        /\ Outstanding(req') \in {Outstanding(req), Outstanding(req) + 1}
        /\ req' = req => (responses' = responses + 1 /\ last'.calls = 0)
        /\ req' # req =>
           \A location \in LocationInputs, rawUnit \in UnitInputs :
             LET key == CacheKey(location, DefaultUnit(rawUnit))
             IN (\/ ~apiKey
                 \/ location \notin ValidLocations
                 \/ DefaultUnit(rawUnit) \notin ValidUnits
                 \/ (Held(key) /\ AgeOf(key) < FifteenMinutes))
                => ~getHandler(location, rawUnit)
     /\ Settles =>
        /\ Outstanding(req') = Outstanding(req) - 1
        /\ last'.calls = 1
        /\ last'.branch \in {"outdated", "offline"}
        /\ responses' = responses + 1]_vars

\* The stale branch has failed and answered with one call made and none
\* outstanding.
C14_Witness ==
  /\ last.branch = "outdated"
  /\ last.calls = 1
  /\ last.result.kind = "ok"
  /\ last.result.data.status = "outdated"
  /\ req = EmptyBag
  /\ responses = started

\* The Map and the Map of the same calls without any sweep hold the same
\* entries, but for entries past their expiry that only the latter holds.
SweepInvisible ==
  /\ \A k \in DOMAIN cache : k \in DOMAIN unswept /\ unswept[k] = cache[k]
  /\ \A k \in DOMAIN unswept :
       now <= unswept[k].expiry => (k \in DOMAIN cache /\ cache[k] = unswept[k])

\* C15: a run of the sweep removes exactly the entries with now > expiry
\* and changes no other entry.  Consequently no lookup can tell whether the
\* sweep has run: at every point of every sequence of set, get, delete,
\* clear, sweeps and clock ticks, the Map differs from the Map of the same
\* sequence without the sweeps only in entries past their expiry, and each
\* get returns what it returns in the sequence without the sweeps.
C15_SweepUnobservable ==
  /\ [](SweepInvisible)
  /\ [][/\ Sweep =>
           /\ DOMAIN cache' = {k \in DOMAIN cache : ~(now > cache[k].expiry)}
           /\ \A k \in DOMAIN cache' : cache'[k] = cache[k]
        /\ ret' # ret =>
           \A key \in CacheKeys :
             get(key)
             => ret' = IF key \in DOMAIN unswept /\ now <= unswept[key].expiry
                       THEN unswept[key].value
                       ELSE Undefined]_vars

\* The sweep has removed an expired entry, which the Map without sweeps
\* still holds, and a get of another key has just returned its value.
C15_Witness ==
  /\ \E k \in DOMAIN unswept \ DOMAIN cache : now > unswept[k].expiry
  /\ \E k \in DOMAIN cache : ret = cache[k].value /\ now = cache[k].expiry

\* The (location, unit) pairs a request can ask about.
KeyPairs == KeyLocations \X KeyUnits

\* C16: entries of different (location, unit) pairs do not interfere.
\* Different pairs have different keys, so the Map holds at most one
\* reading for each pair and none that belongs to no pair; the reading held
\* for a pair is in the pair's unit.  A request for (l, u) is answered from
\* the entry of (l, u) or not from the cache at all, always in unit u; the
\* lookup changes no entry of another pair, and a completed fetch for
\* (l, u) changes the entry of (l, u) only.
C16_KeysDoNotInterfere ==
  /\ [](/\ \A a, b \in KeyPairs : a # b => CacheKey(a[1], a[2]) # CacheKey(b[1], b[2])
        /\ DOMAIN cache \subseteq {CacheKey(a[1], a[2]) : a \in KeyPairs}
        /\ \A a \in KeyPairs :
             CacheKey(a[1], a[2]) \in DOMAIN cache
             => cache[CacheKey(a[1], a[2])].value.unit
                  = (IF a[2] = "fahrenheit" THEN "F" ELSE "C"))
  /\ [][/\ Arrives =>
           \A location \in KeyLocations, unit \in KeyUnits :
             LET key == CacheKey(location, unit)
                 found == IF Held(key) THEN cache[key].value ELSE Undefined
             IN getHandler(location, unit)
                => /\ \A k \in DOMAIN cache \ {key} :
                        k \in DOMAIN cache' /\ cache'[k] = cache[k]
                   /\ DOMAIN cache' \subseteq DOMAIN cache
                   /\ IF req' = req
                      THEN last'.result.kind = "ok"
                           => /\ found # Undefined
                              /\ last'.result =
                                   Served(found, last'.result.data.status)
                              /\ last'.result.data.unit
                                   = (IF unit = "fahrenheit" THEN "F" ELSE "C")
                      ELSE \E branch \in {"outdated", "offline"} :
                             LeftAwaiting(location, unit, found, branch)
        /\ Settles =>
           \A q \in BagToSet(req) :
           Completes(q) =>
           \A upstream \in KeyReplies :
             fetchSettled(q, upstream)
             => /\ \A k \in DOMAIN cache \ {KeyOf(q)} :
                     k \in DOMAIN cache' /\ cache'[k] = cache[k]
                /\ DOMAIN cache' \subseteq DOMAIN cache \cup {KeyOf(q)}
                /\ last'.result.kind = "ok"
                   => last'.result.data.unit
                        = (IF q.unit = "fahrenheit" THEN "F" ELSE "C")]_vars

\* Readings are held for "London" in celsius and for "London_celsius" in
\* fahrenheit, and a request for the latter has just been served its own.
C16_Witness ==
  /\ CacheKey("London", "celsius") \in DOMAIN cache
  /\ CacheKey("London_celsius", "fahrenheit") \in DOMAIN cache
  /\ CacheKey("London", "fahrenheit") \notin DOMAIN cache
  /\ last.branch = "fresh"
  /\ last.result =
       Served(cache[CacheKey("London_celsius", "fahrenheit")].value, "online")
  /\ last.result.data.unit = "F"
  /\ cache[CacheKey("London", "celsius")].value.unit = "C"

\* The step answers a request with a cached reading in this status.
AnswersAs(status) ==
  /\ responses' = responses + 1
  /\ last'.result.kind = "ok"
  /\ last'.result.data.status = status

DegradedStatus(q) == IF q.branch = "outdated" THEN "outdated" ELSE "offline"

\* C18: the fallback uses what the lookup found, not what the cache holds
\* when the fetch fails.  A request left awaiting keeps the reading its
\* lookup found (or that it found none).  When its fetch fails and it had
\* found a reading, it returns that reading as "offline" or "outdated",
\* also when the entry has meanwhile been overwritten by another request or
\* has expired or been removed; when it had found none it fails, also when
\* the cache now holds a reading for its key.
C18_FallbackUsesLookupSnapshot ==
  [][/\ Arrives =>
        \A location \in ValidLocations, unit \in ValidUnits :
          LET key == CacheKey(location, unit)
              found == IF Held(key) THEN cache[key].value ELSE Undefined
          IN (req' # req /\ getHandler(location, unit))
             => \E branch \in {"outdated", "offline"} :
                  LeftAwaiting(location, unit, found, branch)
     /\ Settles =>
        \A q \in BagToSet(req) :
        Completes(q) =>
        \A upstream \in UpstreamReplies :
          (/\ FetchFails(q, upstream)
           /\ \/ ~Held(KeyOf(q))
              \/ cache[KeyOf(q)].value # q.cachedData
           /\ fetchSettled(q, upstream))
          => IF q.cachedData # Undefined
             THEN last'.result = Served(q.cachedData, DegradedStatus(q))
             ELSE /\ last'.result.kind = "error"
                  /\ last'.result = FetchResult(q.unit, upstream)]_vars

\* A request has just been answered "offline" with a reading that is no
\* longer the one the cache holds for its unit: a newer one has replaced it.
C18_Witness ==
  /\ last.calls = 1
  /\ last.result.kind = "ok"
  /\ last.result.data.status = "offline"
  /\ \E k \in DOMAIN cache :
       /\ cache[k].value.unit = last.result.data.unit
       /\ now <= cache[k].expiry
       /\ Served(cache[k].value, "offline") # last.result
       /\ cache[k].value.timestamp # last.result.data.timestamp

\* C19: under concurrent fetches for one key the entry is the one of the
\* fetch that completed last.  Whenever a fetch succeeds, whatever other
\* requests for its key are pending and whenever they started, the entry of
\* its key becomes its reading with cacheTime equal to the time of this
\* completion, and the cacheTime of an entry that it overwrites is not
\* later than the new one; whenever a fetch fails the cache stays as it is,
\* entries written by other requests included; and a request that starts
\* changes no entry's value.  So as long as the latest completion was a
\* successful fetch, the entry of its key, while there, is its reading.
C19_LastCompletionWins ==
  /\ [](\A location \in ValidLocations, unit \in ValidUnits :
          LET key == CacheKey(location, unit)
          IN (/\ last.calls = 1
              /\ last.result.kind = "ok"
              /\ last.result.data.status = "online"
              /\ last.result.data.unit = (IF unit = "fahrenheit" THEN "F" ELSE "C")
              /\ key \in DOMAIN cache)
             => Served(cache[key].value, "online") = last.result)
  /\ [][
     /\ Arrives => NothingWritten
     /\ Settles =>
        \A q \in BagToSet(req) :
        Completes(q) =>
        \A upstream \in UpstreamReplies :
          fetchSettled(q, upstream)
          => IF FetchFails(q, upstream)
             THEN cache' = cache
             ELSE /\ KeyOf(q) \in DOMAIN cache'
                  /\ cache'[KeyOf(q)].value.cacheTime = now
                  /\ Served(cache'[KeyOf(q)].value, "online")
                       = FetchResult(q.unit, upstream)
                  /\ KeyOf(q) \in DOMAIN cache
                     => cache[KeyOf(q)].value.cacheTime
                          <= cache'[KeyOf(q)].value.cacheTime
                  /\ \A p \in BagToSet(req') : p \in BagToSet(req)]_vars

\* Two requests for one key are pending.  One found nothing; the other
\* found the reading the cache has held ever since it was written, so it
\* started later.  The fetch of the later one has not been fresh enough to
\* be skipped, and either can complete last.
C19_Witness ==
  \E p, q \in BagToSet(req) :
    /\ KeyOf(p) = KeyOf(q)
    /\ p.cachedData = Undefined
    /\ q.cachedData # Undefined
    /\ Held(KeyOf(q))
    /\ cache[KeyOf(q)].value = q.cachedData
    /\ last.calls = 1
    /\ last.result = Served(q.cachedData, "online")

\* C20: provided every upstream call completes, with success or failure,
\* every request gets its response: whenever requests are unanswered, a
\* moment comes at which every request received has been answered and none
\* is pending, however other requests, the sweep and the clock interleave.
C20_EveryRequestAnswered ==
  (responses < started) ~> (responses = started /\ req = EmptyBag)

\* All the requests of the run have been answered, the last one after a
\* fetch that succeeded.
C20_Witness ==
  /\ started = NumRequests
  /\ responses = started
  /\ req = EmptyBag
  /\ last.calls = 1
  /\ last.result.kind = "ok"
  /\ last.result.data.status = "online"

====
